---- MODULE Spec2Model ----
(***************************************************************************)
(* Markov chain text generator (mark.go): Build, the frequency-table       *)
(* writer of main's read mode, the decoder BuildFromRead/TextLineToChain   *)
(* of main's generate mode, and Generate.                                  *)
(*                                                                         *)
(* A Go string is modelled as a sequence of one-character strings, so that *)
(* Join, Split, TrimSpace, the \D+ regexp, Itoa and Atoi are computed      *)
(* character by character as the code computes them.                       *)
(***************************************************************************)
EXTENDS Integers, Sequences, FiniteSets, TLC

\* ---------------------------------------------------------------- bounds
MaxPrefixLen == 2    \* prefix lengths 1..MaxPrefixLen are tried
MaxTokens    == 4    \* tokens read by Build over all input files
MaxFiles     == 2    \* input files of one read-mode run
MaxWords     == 3    \* largest n passed to Generate
MaxLines     == 2    \* table lines of a model file handed to generate mode

\* ------------------------------------------------------------ characters
DigitChars == <<"0", "1", "2", "3", "4", "5", "6", "7", "8", "9">>

IsDigit(ch) == \E d \in 1..10 : DigitChars[d] = ch

DigitVal(ch) == (CHOOSE d \in 1..10 : DigitChars[d] = ch) - 1

\* byte value of a character (the order sort.Strings compares by)
Ord(ch) ==
    IF ch = " " THEN 32
    ELSE IF ch = "\"" THEN 34
    ELSE IF IsDigit(ch) THEN 48 + DigitVal(ch)
    ELSE IF ch = "a" THEN 97
    ELSE IF ch = "b" THEN 98
    ELSE 120

\* the words fmt.Fscan can deliver: non-empty, no white space
Tokens == { <<"a">>, <<"b">> }

\* ---------------------------------------------------------------- strings
RECURSIVE StrLess(_, _)
StrLess(s, t) ==
    IF t = <<>> THEN FALSE
    ELSE IF s = <<>> THEN TRUE
    ELSE IF Ord(Head(s)) < Ord(Head(t)) THEN TRUE
    ELSE IF Ord(Head(s)) > Ord(Head(t)) THEN FALSE
    ELSE StrLess(Tail(s), Tail(t))

RECURSIVE Join(_, _)
Join(a, sep) ==
    IF a = <<>> THEN <<>>
    ELSE IF Len(a) = 1 THEN a[1]
    ELSE a[1] \o sep \o Join(Tail(a), sep)

\* strings.Split(s, " "): always at least one field
RECURSIVE SplitFrom(_, _, _)
SplitFrom(s, k, cur) ==
    IF k > Len(s) THEN <<cur>>
    ELSE IF s[k] = " " THEN <<cur>> \o SplitFrom(s, k + 1, <<>>)
    ELSE SplitFrom(s, k + 1, Append(cur, s[k]))

Split(s) == SplitFrom(s, 1, <<>>)

RECURSIVE TrimLeft(_)
TrimLeft(s) ==
    IF s # <<>> /\ Head(s) = " " THEN TrimLeft(Tail(s)) ELSE s

RECURSIVE TrimRight(_)
TrimRight(s) ==
    IF s # <<>> /\ s[Len(s)] = " " THEN TrimRight(SubSeq(s, 1, Len(s) - 1)) ELSE s

TrimSpace(s) == TrimRight(TrimLeft(s))

RECURSIVE Itoa(_)
Itoa(k) ==
    IF k < 10 THEN <<DigitChars[k + 1]>>
    ELSE Itoa(k \div 10) \o <<DigitChars[(k % 10) + 1]>>

RECURSIVE AtoiFrom(_, _, _)
AtoiFrom(s, k, acc) ==
    IF k > Len(s) THEN acc ELSE AtoiFrom(s, k + 1, acc * 10 + DigitVal(s[k]))

\* strconv.Atoi with the error dropped, as main does: 0 when s is no number
Atoi(s) ==
    IF s # <<>> /\ \A k \in 1..Len(s) : IsDigit(s[k]) THEN AtoiFrom(s, 1, 0) ELSE 0

\* ------------------------------------------------------------ Prefix, Chain
\* make(Prefix, prefixLen): prefixLen empty strings
MakePrefix(len) == [k \in 1..len |-> <<>>]

String(pfx) == Join(pfx, <<" ">>)

\* Shift without its last line: the new word is never stored
ShiftDropsWord(pfx, word) ==
    [k \in 1..Len(pfx) |-> IF k < Len(pfx) THEN pfx[k + 1] ELSE pfx[k]]

Shift(pfx, word) ==
    [k \in 1..Len(pfx) |-> IF k < Len(pfx) THEN pfx[k + 1] ELSE word]

NewChain == <<>>

\* c.chain[key] of a Go map: nil for a missing key
Lookup(m, key) == IF key \in DOMAIN m THEN m[key] ELSE <<>>

\* m[key] = v
Store(m, key, v) == [k \in (DOMAIN m) \cup {key} |-> IF k = key THEN v ELSE m[k]]

\* ------------------------------------------------------------------ codec
RECURSIVE Insert(_, _)
Insert(x, s) ==
    IF s = <<>> THEN <<x>>
    ELSE IF StrLess(x, Head(s)) THEN <<x>> \o s
    ELSE <<Head(s)>> \o Insert(x, Tail(s))

\* sort.Strings(val)
RECURSIVE SortStrings(_)
SortStrings(v) ==
    IF v = <<>> THEN <<>> ELSE Insert(Head(v), SortStrings(Tail(v)))

\* the for loop of ValIteration over the sorted slice; cnt is declared
\* before the loop and only ever incremented
RECURSIVE ValLoop(_, _, _, _)
ValLoop(v, k, cnt, processedVal) ==
    IF k > Len(v) THEN processedVal
    ELSE IF k < Len(v) /\ v[k] = v[k + 1]
         THEN ValLoop(v, k + 1, cnt + 1, processedVal)
         ELSE ValLoop(v, k + 1, cnt,
                      processedVal \o <<" ">> \o v[k] \o <<" ">> \o Itoa(cnt))

ValIteration(v) ==
    IF Len(v) = 1 THEN v[1] \o <<" ", "1">>
    ELSE TrimSpace(ValLoop(SortStrings(v), 1, 1, <<>>))

\* ValIteration sorts its argument in place unless it has one element
SortedInPlace(v) == IF Len(v) = 1 THEN v ELSE SortStrings(v)

\* reg.FindAllString(`\D+`) concatenated again: the line without its digits
RECURSIVE NonDigits(_)
NonDigits(s) ==
    IF s = <<>> THEN <<>>
    ELSE IF IsDigit(Head(s)) THEN NonDigits(Tail(s))
    ELSE <<Head(s)>> \o NonDigits(Tail(s))

\* the loop of TextLineToChain over splitStringList[0 .. len-2]
\* (k is the 1-based index, so the code's i is k - 1)
RECURSIVE LineLoop(_, _, _, _, _)
LineLoop(list, k, len, key, v) ==
    IF k > Len(list) - 1 THEN [key |-> TrimSpace(key), val |-> v]
    ELSE IF k - 1 < len
         THEN IF key = <<"\"", "\"">>
              THEN LineLoop(list, k + 1, len, list[k] \o <<" ">>, v)
              ELSE LineLoop(list, k + 1, len, key \o list[k] \o <<" ">>, v)
         ELSE IF list[k] = <<>>
              THEN LineLoop(list, k + 1, len, key, v)
              ELSE LineLoop(list, k + 1, len, key, Append(v, TrimSpace(list[k])))

TextLineToChain(currentLine, len) ==
    LineLoop(Split(NonDigits(currentLine)), 1, len, <<>>, <<>>)

\* one table line as main's read mode prints it
TableLine(key, v) == key \o <<" ">> \o ValIteration(v)

\* the orders in which a range loop may visit the keys of a map
Orders(S) ==
    { o \in [1..Cardinality(S) -> S] :
        \A x, y \in 1..Cardinality(S) : x # y => o[x] # o[y] }

\* table lines of model files handed to generate mode that no read-mode
\* run wrote, each given by its fields
LineSet ==
    { Join(f, <<" ">>) : f \in
        { << <<>>, <<"a">>, <<"1">> >>,                          \* seed -> a
          << <<>>, <<"a">>, <<"1">>, <<"b">>, <<"1">> >>,        \* seed -> a b
          << <<"a">>, <<"a">>, <<"1">> >>,                       \* a -> a
          << <<"a">>, <<"b">>, <<"1">> >>,                       \* a -> b
          << <<"a">>, <<"a">>, <<"2">>, <<"b">>, <<"1">> >>,     \* a -> a a b
          << <<"a">>, <<"b">>, <<"1", "2">> >>,                  \* a -> 12 times b
          << <<"a">> >>,                                         \* no separator
          << <<"a">>, <<"b">> >>,                                \* odd field count
          << <<"a">>, <<"b">>, <<"b">> >>,                       \* count no number
          << <<"a">>, <<"b">>, <<"0">> >> } }                    \* count not positive

RECURSIVE SeqsUpTo(_, _)
SeqsUpTo(S, len) ==
    IF len = 0 THEN { <<>> }
    ELSE LET shorter == SeqsUpTo(S, len - 1)
         IN shorter \cup { Append(q, x) : q \in shorter, x \in S }

\* a header line and at most MaxLines table lines
ModelFiles ==
    { <<Itoa(len)>> \o body : len \in 1..MaxPrefixLen, body \in SeqsUpTo(LineSet, MaxLines) }

\* ------------------------------------------------------------------ state
VARIABLES
    pc,            \* where main is
    mode,          \* "read": the model file comes from a read-mode run;
                   \* "generate": generate mode runs on a file it was handed
    prefixLen,     \* read mode: os.Args[2]
    chain,         \* read mode: c.chain
    p,             \* Build's prefix
    streams,       \* the tokens Build has read so far, one sequence per file
    count,         \* read mode: main's count of finished input files
    outFile,       \* the lines written to the output file
    emitted,       \* the keys of the last range loop in the order it visited them
    modelFile,     \* generate mode: the lines of the model file
    scanPos,       \* generate mode: the next line the scanner returns
    readP,         \* BuildFromRead's map p
    genChain,      \* generate mode: c.chain
    genPrefixLen,  \* generate mode: c.prefixLen
    n,             \* Generate's argument
    i,             \* Generate's loop counter
    gp,            \* Generate's prefix
    words,         \* Generate's words
    text           \* what Generate returned

vars == <<pc, mode, prefixLen, chain, p, streams, count, outFile, emitted,
          modelFile, scanPos, readP, genChain, genPrefixLen, n, i, gp, words, text>>

readVars == <<prefixLen, chain, p, streams, count, outFile, emitted>>
decodeVars == <<modelFile, scanPos, readP, genChain, genPrefixLen>>
genVars == <<n, i, gp, words, text>>

TokensRead == IF streams = <<>> THEN 0
              ELSE LET RECURSIVE Sum(_)
                       Sum(k) == IF k = 0 THEN 0 ELSE Len(streams[k]) + Sum(k - 1)
                   IN Sum(Len(streams))

\* what both modes start from
InitRest ==
    /\ chain = NewChain
    /\ p = <<>>
    /\ streams = <<>>
    /\ count = 0
    /\ outFile = <<>>
    /\ emitted = <<>>
    /\ scanPos = 0
    /\ readP = NewChain
    /\ genChain = NewChain
    /\ genPrefixLen = 0
    /\ n = 0
    /\ i = 0
    /\ gp = <<>>
    /\ words = <<>>
    /\ text = <<>>

\* main in read mode, with a prefix length of at least 1
InitRead ==
    /\ mode = "read"
    /\ pc = "files"
    /\ prefixLen \in 1..MaxPrefixLen
    /\ modelFile = <<>>
    /\ InitRest

\* main in generate mode, handed a model file
InitGenerate ==
    /\ mode = "generate"
    /\ pc = "open"
    /\ prefixLen = 0
    /\ modelFile \in ModelFiles
    /\ InitRest

Init == InitRead \/ InitGenerate

\* ---------------------------------------------------------------- read mode
\* main's loop over the input files: the next file is opened and Build starts
OpenFile ==
    /\ pc = "files"
    /\ Len(streams) < MaxFiles
    /\ p' = MakePrefix(prefixLen)
    /\ streams' = Append(streams, <<>>)
    /\ pc' = "build"
    /\ UNCHANGED <<mode, prefixLen, chain, count, outFile, emitted>>
    /\ UNCHANGED decodeVars /\ UNCHANGED genVars

\* one round of Build's loop: Fscan delivers the word s
BuildStep(s) ==
    /\ pc = "build"
    /\ TokensRead < MaxTokens
    /\ LET key == String(p)
       IN chain' = Store(chain, key, Append(Lookup(chain, key), s))
    /\ p' = Shift(p, s)
    /\ streams' = [streams EXCEPT ![Len(streams)] = Append(@, s)]
    /\ UNCHANGED <<pc, mode, prefixLen, count, outFile, emitted>>
    /\ UNCHANGED decodeVars /\ UNCHANGED genVars

\* Fscan fails (end of file): Build returns
BuildEOF ==
    /\ pc = "build"
    /\ pc' = "write"
    /\ UNCHANGED <<mode>> /\ UNCHANGED readVars
    /\ UNCHANGED decodeVars /\ UNCHANGED genVars

\* the rest of the loop body: the header before the first table, then one
\* line per key in the order the range loop visits the map; ValIteration
\* sorts the pools it is handed
WriteTable(order) ==
    /\ pc = "write"
    /\ outFile' = outFile
                  \o (IF count = 0 THEN <<Itoa(prefixLen)>> ELSE <<>>)
                  \o [k \in 1..Len(order) |-> TableLine(order[k], chain[order[k]])]
    /\ chain' = [k \in DOMAIN chain |-> SortedInPlace(chain[k])]
    /\ emitted' = order
    /\ count' = count + 1
    /\ pc' = "files"
    /\ UNCHANGED <<mode, prefixLen, p, streams>>
    /\ UNCHANGED decodeVars /\ UNCHANGED genVars

\* no input file is left: read mode ends
ExitRead ==
    /\ pc = "files"
    /\ pc' = "exit"
    /\ UNCHANGED <<mode>> /\ UNCHANGED readVars
    /\ UNCHANGED decodeVars /\ UNCHANGED genVars

\* -------------------------------------------------------------- generate mode
\* the program is run again, on the file read mode wrote
RunGenerate ==
    /\ pc = "exit"
    /\ modelFile' = outFile
    /\ pc' = "open"
    /\ UNCHANGED <<mode, scanPos, readP, genChain, genPrefixLen>>
    /\ UNCHANGED readVars /\ UNCHANGED genVars

\* the first line is read and NewChain(prefixLen) made; numList[0] of an
\* empty file is out of range
ReadHeader ==
    /\ pc = "open"
    /\ IF modelFile = <<>>
       THEN /\ pc' = "panic"
            /\ UNCHANGED <<scanPos, readP, genChain, genPrefixLen>>
       ELSE /\ genPrefixLen' = Atoi(modelFile[1])
            /\ genChain' = NewChain
            /\ readP' = NewChain
            /\ scanPos' = 2
            /\ pc' = "decode"
    /\ UNCHANGED <<mode, modelFile>>
    /\ UNCHANGED readVars /\ UNCHANGED genVars

\* one round of BuildFromRead's loop
DecodeLine ==
    /\ pc = "decode"
    /\ scanPos <= Len(modelFile)
    /\ LET kv == TextLineToChain(modelFile[scanPos], genPrefixLen)
       IN readP' = Store(readP, kv.key, kv.val)
    /\ scanPos' = scanPos + 1
    /\ UNCHANGED <<pc, mode, modelFile, genChain, genPrefixLen>>
    /\ UNCHANGED readVars /\ UNCHANGED genVars

\* the scanner is exhausted: BuildFromRead installs the map and returns
DecodeEnd ==
    /\ pc = "decode"
    /\ scanPos > Len(modelFile)
    /\ genChain' = readP
    /\ pc' = "call"
    /\ UNCHANGED <<mode, modelFile, scanPos, readP, genPrefixLen>>
    /\ UNCHANGED readVars /\ UNCHANGED genVars

\* Generate(m) is entered
GenerateCall(m) ==
    /\ pc = "call"
    /\ n' = m
    /\ i' = 0
    /\ gp' = MakePrefix(genPrefixLen)
    /\ words' = <<>>
    /\ pc' = "generate"
    /\ UNCHANGED <<mode, text>>
    /\ UNCHANGED readVars /\ UNCHANGED decodeVars

\* the loop condition with <= for <
LoopCondInclusive(j, m) == j <= m

\* Generate's loop condition
LoopCond(j, m) == j < m

\* the lookup made with a fresh prefix instead of the shifted one
ChoicesOfSeed == Lookup(genChain, String(MakePrefix(genPrefixLen)))

\* choices := c.chain[p.String()]
Choices == Lookup(genChain, String(gp))

\* one round of Generate's loop, rand.Intn having drawn r - 1
GenerateStep(r) ==
    /\ pc = "generate"
    /\ LoopCond(i, n)
    /\ words' = Append(words, Choices[r])
    /\ gp' = Shift(gp, Choices[r])
    /\ i' = i + 1
    /\ UNCHANGED <<pc, mode, n, text>>
    /\ UNCHANGED readVars /\ UNCHANGED decodeVars

\* the loop ends, by its condition or by the break, and Generate returns
GenerateReturn ==
    /\ pc = "generate"
    /\ ~LoopCond(i, n) \/ Len(Choices) = 0
    /\ text' = Join(words, <<" ">>)
    /\ pc' = "done"
    /\ UNCHANGED <<mode, n, i, gp, words>>
    /\ UNCHANGED readVars /\ UNCHANGED decodeVars

Next ==
    \/ OpenFile
    \/ \E s \in Tokens : BuildStep(s)
    \/ BuildEOF
    \/ \E order \in Orders(DOMAIN chain) : WriteTable(order)
    \/ ExitRead
    \/ RunGenerate
    \/ ReadHeader
    \/ DecodeLine
    \/ DecodeEnd
    \/ \E m \in 0..MaxWords : GenerateCall(m)
    \/ \E r \in 1..Len(Choices) : GenerateStep(r)
    \/ GenerateReturn

Spec == Init /\ [][Next]_vars

\* one call of Build on the empty chain of a read-mode run
NextBuild ==
    \/ OpenFile
    \/ \E s \in Tokens : BuildStep(s)
    \/ BuildEOF

SpecBuild == InitRead /\ [][NextBuild]_vars

\* generate mode on the model files it is handed
NextGenerate ==
    \/ ReadHeader
    \/ DecodeLine
    \/ DecodeEnd
    \/ \E m \in 0..MaxWords : GenerateCall(m)
    \/ \E r \in 1..Len(Choices) : GenerateStep(r)
    \/ GenerateReturn

SpecGenerate == InitGenerate /\ [][NextGenerate]_vars

\* Generate is sequential code: once entered, its loop keeps running until
\* it returns
FairSpecGenerate ==
    /\ SpecGenerate
    /\ WF_vars(\E r \in 1..Len(Choices) : GenerateStep(r))
    /\ WF_vars(GenerateReturn)

\* ------------------------------------------------------------- properties
Range(q) == { q[k] : k \in 1..Len(q) }

\* how often t occurs in pool
Occurrences(t, pool) == Cardinality({ k \in 1..Len(pool) : pool[k] = t })

SameMultiset(u, v) ==
    /\ Len(u) = Len(v)
    /\ \A t \in Range(u) \cup Range(v) : Occurrences(t, u) = Occurrences(t, v)

IsSorted(q) == \A k \in 1..(Len(q) - 1) : StrLess(q[k], q[k + 1])

\* ---- C4
\* the positions of the tokens read so far: file f, index idx
Positions ==
    { pos \in (1..Len(streams)) \X (1..MaxTokens) : pos[2] <= Len(streams[pos[1]]) }

\* the prefixLen tokens before position pos, padded on the left with the
\* empty seed token, joined by single spaces
KeyAt(pos) ==
    Join([k \in 1..prefixLen |->
            LET at == pos[2] - prefixLen + k - 1
            IN IF at >= 1 THEN streams[pos[1]][at] ELSE <<>>],
         <<" ">>)

\* C4: while and after Build reads its input, the keys of the chain are
\* exactly the windows of prefixLen tokens (seed-padded) that precede a token
\* read, and the pool of each key holds exactly the tokens read after that
\* window, each as often as it was read there
C4_SlidingWindow ==
    mode = "read" =>
        /\ DOMAIN chain = { KeyAt(pos) : pos \in Positions }
        /\ \A key \in DOMAIN chain :
            /\ Len(chain[key]) = Cardinality({ pos \in Positions : KeyAt(pos) = key })
            /\ \A t \in Tokens :
                 Occurrences(t, chain[key]) =
                     Cardinality({ pos \in Positions :
                                     /\ KeyAt(pos) = key
                                     /\ streams[pos[1]][pos[2]] = t })

\* Build has returned from a four-token input with prefix length 2 in which
\* the seed key got one token and some key got two different ones
C4_Witness ==
    /\ pc = "write"
    /\ prefixLen = 2
    /\ Len(streams) = 1
    /\ Len(streams[1]) = 4
    /\ Len(Lookup(chain, <<" ">>)) = 1
    /\ \E key \in DOMAIN chain :
         Len(chain[key]) = 2 /\ chain[key][1] # chain[key][2]

\* ---- C5
\* C5: Generate(n) never holds more than n words, and once entered it returns
C5_GenerateTerminates ==
    /\ [](pc \in {"generate", "done"} => Len(words) <= n)
    /\ (pc = "generate") ~> (pc = "done")

\* Generate returned exactly n >= 2 words from a chain with prefix length 1
\* in which a word was followed by itself: the walk went round a cycle
C5_Witness ==
    /\ pc = "done"
    /\ genPrefixLen = 1
    /\ n >= 2
    /\ Len(words) = n
    /\ \E j \in 1..(n - 1) : words[j] = words[j + 1]

\* ---- C9
\* the key Generate looks up before it emits word number j: the last
\* genPrefixLen words emitted, padded on the left with empty tokens
KeyBefore(j) ==
    Join([k \in 1..genPrefixLen |->
            LET at == j - genPrefixLen + k - 1
            IN IF at >= 1 THEN words[at] ELSE <<>>],
         <<" ">>)

\* C9: every word Generate emits is in the chain's pool for the key made of
\* the words before it; it returns fewer than n words only at a key whose
\* pool is absent or empty; on a chain without entries it returns ""
C9_ValidWalk ==
    pc \in {"generate", "done"} =>
        /\ \A j \in 1..Len(words) : words[j] \in Range(Lookup(genChain, KeyBefore(j)))
        /\ (pc = "done" /\ Len(words) < n) =>
               Lookup(genChain, KeyBefore(Len(words) + 1)) = <<>>
        /\ (pc = "done" /\ DOMAIN genChain = {}) => (words = <<>> /\ text = <<>>)

\* Generate returned two words although three were asked for: a dead end
\* after a walk of two steps
C9_Witness ==
    /\ pc = "done"
    /\ n = 3
    /\ Len(words) = 2
    /\ words[1] # words[2]

\* ---- C1
\* C1: after one input file has been built, written and decoded again, the
\* decoded chain has the prefix length, the keys and, as multisets, the pools
\* of the built chain
C1_RoundTrip ==
    (mode = "read" /\ count = 1 /\ pc = "call") =>
        /\ genPrefixLen = prefixLen
        /\ DOMAIN genChain = DOMAIN chain
        /\ \A key \in DOMAIN chain : SameMultiset(Lookup(genChain, key), chain[key])

\* ---- C2
\* the distinct tokens of pool in sorted order
SortedDistinct(pool) ==
    CHOOSE q \in Orders(Range(pool)) : IsSorted(q)

\* each distinct token of pool, in sorted order, followed by the number of
\* times it occurs in pool
RunLengths(pool) ==
    LET q == SortedDistinct(pool)
    IN Join([k \in 1..Len(q) |-> q[k] \o <<" ">> \o Itoa(Occurrences(q[k], pool))],
            <<" ">>)

\* C2: every line of the table written last carries, after its key, the
\* sorted distinct tokens of the key's pool, each with its exact number of
\* occurrences
C2_RunLength ==
    (mode = "read" /\ count >= 1 /\ pc \notin {"build", "write"}) =>
        \A k \in 1..Len(emitted) :
            outFile[Len(outFile) - Len(emitted) + k] =
                emitted[k] \o <<" ">> \o RunLengths(chain[emitted[k]])

\* ---- C3, C6
\* a table line read as the format has it: prefixLen key fields, then
\* (token, count) pairs
Fields(line) == Split(line)

PairCount(line, len) == (Len(Fields(line)) - len) \div 2

TokenField(line, len, j) == Fields(line)[len + 2 * j - 1]

CountField(line, len, j) == Fields(line)[len + 2 * j]

IsPositiveInt(s) ==
    /\ s # <<>>
    /\ \A k \in 1..Len(s) : IsDigit(s[k])
    /\ Atoi(s) >= 1

\* no key/remainder separator, an odd number of fields after the key, or a
\* count that is no positive integer
Malformed(line, len) ==
    \/ Len(Fields(line)) <= len
    \/ (Len(Fields(line)) - len) % 2 = 1
    \/ \E j \in 1..PairCount(line, len) : ~IsPositiveInt(CountField(line, len, j))

RECURSIVE ListedFrom(_, _, _, _)
ListedFrom(line, len, t, j) ==
    IF j = 0 THEN 0
    ELSE (IF TokenField(line, len, j) = t THEN Atoi(CountField(line, len, j)) ELSE 0)
         + ListedFrom(line, len, t, j - 1)

\* the count the line pairs with token t
Listed(line, len, t) == ListedFrom(line, len, t, PairCount(line, len))

ListedTokens(line, len) == { TokenField(line, len, j) : j \in 1..PairCount(line, len) }

LineKey(line, len) == Join(SubSeq(Fields(line), 1, len), <<" ">>)

\* C3: the pool the decoder has just stored for a well-formed line holds
\* every token exactly as often as the line's count says, and nothing else
C3_CountExpansion ==
    (pc = "decode" /\ scanPos > 2 /\ ~Malformed(modelFile[scanPos - 1], genPrefixLen)) =>
        LET line == modelFile[scanPos - 1]
            pool == Lookup(readP, LineKey(line, genPrefixLen))
        IN \A t \in ListedTokens(line, genPrefixLen) \cup Range(pool) :
               Occurrences(t, pool) = Listed(line, genPrefixLen, t)

\* C6: the decoder does not go on after a malformed line: once it has
\* consumed one, it is neither still decoding nor generating
C6_FormatError ==
    (pc \in {"decode", "call", "generate", "done"}) =>
        \A k \in 2..(scanPos - 1) : ~Malformed(modelFile[k], genPrefixLen)

\* ---- C7
\* C7: a table is written with its keys in lexicographic order, and a chain
\* written a second time (after an empty input file) gives the same lines
C7_Deterministic ==
    (mode = "read" /\ count >= 1 /\ pc \notin {"build", "write"}) =>
        /\ IsSorted(emitted)
        /\ (count = 2 /\ streams[2] = <<>>) =>
               \A k \in 1..Len(emitted) : outFile[1 + k] = outFile[1 + Len(emitted) + k]

\* ---- C8
\* C8: every key stored by Build, and every key stored by decoding a table
\* read mode wrote, splits on the single space into exactly prefixLen tokens
C8_KeyShape ==
    mode = "read" =>
        /\ \A key \in DOMAIN chain : Len(Split(key)) = prefixLen
        /\ \A key \in (DOMAIN readP) \cup (DOMAIN genChain) : Len(Split(key)) = genPrefixLen

\* ---- C10
\* C10: after a read-mode run over some non-empty input and the decoding of
\* its table, the key Generate looks up first is a key of the decoded chain,
\* and Generate(n), n >= 1, returns a first word that begins an input file
C10_SeedAgreement ==
    (mode = "read" /\ TokensRead > 0) =>
        /\ pc \in {"call", "generate", "done"} =>
               String(MakePrefix(genPrefixLen)) \in DOMAIN genChain
        /\ (pc = "done" /\ n >= 1) =>
               /\ Len(words) >= 1
               /\ \E f \in 1..Len(streams) :
                      streams[f] # <<>> /\ words[1] = streams[f][1]

====
